---- MODULE Spec2Model ----
(***************************************************************************)
(* Turn scheduling and shared memory of the Pandemonium conversation       *)
(* (Conversation, BrokerAgent, BaseAgent, LangGraphMemory).                *)
(*                                                                         *)
(* Python lists are objects: get_recent_messages returns the state's own   *)
(* list while it is no longer than the window, so an agent's               *)
(* memory_messages may BE conversation_state["messages"].  The set         *)
(* memory_is_state holds the agents for which that is so; for the others   *)
(* memory_messages[a] is the agent's own list.  The broker is a BaseAgent  *)
(* whose conversation_history is the canonical log.                        *)
(*                                                                         *)
(* Construction is taken to succeed.  As the files stand,                  *)
(* BaseAgent.__init__(name, persona) does not accept the model and         *)
(* temperature that BrokerAgent and EvaluatorAgent pass to it, and         *)
(* Conversation passes two arguments to BrokerAgent(); the methods         *)
(* modelled here are those that run once the objects exist.                *)
(***************************************************************************)
EXTENDS Integers, Sequences, FiniteSets, TLC

\* ------------------------------------------------------------------ bounds
MaxAgents == 2
MaxRounds == 1
MaxCalls == 2
MaxStarts == 2
MaxConclusions == 2
MaxAgentsRR == 3
MaxRoundsRR == 3
MaxSize == 3
MaxRoster == 3
MaxNextCalls == 5
MaxAgentsSnap == 2
MaxRoundsSnap == 2
MaxCallsSnap == 4
MaxCallsNoSpecs == 3
MaxAgentsTerm == 2
MaxRoundsTerm == 1
MaxConclusionsTerm == 4
MaxAgentsInter == 2
MaxRoundsInter == 1
MaxSpecsBatch == 3
MaxRoundsBatch == 2

\* ------------------------------------------------------- program constants
\* MEMORY_WINDOW_SIZE is read from the environment: the settings modelled
WindowSizes == {1, 2}
DefaultMaxRounds == 3
DefaultAgents == 5
\* main's automatic mode: range(args.rounds * 3)
BatchCallsPerRound == 3

BrokerBobby == "BrokerBobby"
TheBroker == "The Broker"
Evaluator == "Evaluator"
Introduction == "introduction"
Conclusion == "conclusion"
None == -1
Raises == "raises"

AgentNames == <<"P1", "P2", "P3", "P4", "P5">>
\* the responder is opaque: the k-th next_turn call's responder, when it returns,
\* returns a text of its own
TextNames == <<"t01", "t02", "t03", "t04", "t05", "t06", "t07", "t08", "t09", "t10",
               "t11", "t12", "t13", "t14", "t15", "t16", "t17", "t18", "t19", "t20",
               "t21", "t22", "t23", "t24", "t25", "t26", "t27", "t28", "t29", "t30">>
Returns == "returns"

VARIABLES
    agents,               \* Conversation.agents / BrokerAgent.agents: names in order
    current_turn,         \* BrokerAgent.current_turn
    round_count,          \* Conversation.round_count
    max_rounds,           \* Conversation.max_rounds
    conversation_state,   \* Conversation.conversation_state (ConversationState)
    conversation_history, \* BaseAgent.conversation_history, per agent and broker
    last_seen_turn,       \* BaseAgent.last_seen_turn, per agent and broker
    memory_messages,      \* BaseAgent.memory_messages when it is the agent's own list
    memory_is_state,      \* agents whose memory_messages is the state's messages list
    window_size,          \* LangGraphMemory.window_size = Config.MEMORY_WINDOW_SIZE
    evaluations,          \* number of EvaluatorAgent.evaluate_conversation calls
    conclusions,          \* number of terminal summaries next_turn has returned
    starts,               \* number of start_conversation calls
    calls,                \* number of next_turn calls
    last                  \* the last start_conversation / next_turn call and its result

vars == <<agents, current_turn, round_count, max_rounds, conversation_state,
          conversation_history, last_seen_turn, memory_messages, memory_is_state,
          window_size, evaluations, conclusions, starts, calls, last>>

\* ----------------------------------------------------------------- helpers
Range(s) == {s[i] : i \in 1..Len(s)}

Speakers == Range(agents) \cup {BrokerBobby}

\* f"{speaker}: {text}" and a bare text, as message contents
Prefixed(speaker, text) == <<speaker, text>>
Raw(text) == <<text>>

HumanMessage(content) == [type |-> "human", content |-> content]
AIMessage(content) == [type |-> "ai", content |-> content]

\* the canonical log
Log == conversation_history[BrokerBobby]

\* ------------------------------------------------------------- BaseAgent
add_to_history(history, message, speaker) ==
    Append(history, [speaker |-> speaker, message |-> message,
                     turn |-> Len(history) + 1])

\* last_seen_turn after the loop of update_with_new_messages
LastSeenAfterFirst(seen, new_messages) ==
    IF new_messages = <<>> THEN seen ELSE new_messages[1].turn

LastSeenAfter(seen, new_messages) ==
    IF new_messages = <<>> THEN seen ELSE new_messages[Len(new_messages)].turn

\* what update_with_new_messages appends to memory_messages
MemoryAdditions(name, new_messages) ==
    LET others == SelectSeq(new_messages, LAMBDA m : m.speaker # name)
    IN  [i \in 1..Len(others) |->
            HumanMessage(Prefixed(others[i].speaker, others[i].message))]

\* update_with_new_messages: the agent's history and last_seen_turn after the
\* loop, and what the loop appended to memory_messages
update_with_new_messages(history, seen, name, new_messages) ==
    [history |-> history \o new_messages,
     seen |-> LastSeenAfter(seen, new_messages),
     added |-> MemoryAdditions(name, new_messages)]

\* the two fixed messages of _create_messages
SystemPrompt == [type |-> "system", content |-> Raw("system prompt")]
ClosingRequest == HumanMessage(Raw("Please respond to the conversation about the topic."))

\* Python's memory[-window:] for window >= 0: memory[-0:] is the whole list
TailSlice(memory, window) ==
    IF window = 0 \/ window >= Len(memory)
    THEN memory
    ELSE SubSeq(memory, Len(memory) - window + 1, Len(memory))

\* _create_messages without the slice
_create_messages_whole(memory, window) ==
    <<SystemPrompt>> \o memory \o <<ClosingRequest>>

\* _create_messages: the message list given to llm.invoke
_create_messages(memory, window) ==
    LET recent_messages == IF Len(memory) > window
                           THEN TailSlice(memory, window) ELSE memory
    IN  IF recent_messages = <<>>
        THEN <<SystemPrompt, ClosingRequest>>
        ELSE <<SystemPrompt>> \o recent_messages \o <<ClosingRequest>>

\* ------------------------------------------------------- LangGraphMemory
get_recent_messages(messages, size, own_window) ==
    LET window == IF size = None \/ size = 0 THEN own_window ELSE size
    IN  IF Len(messages) <= window
        THEN messages
        ELSE SubSeq(messages, Len(messages) - window + 1, Len(messages))

\* get_recent_messages hands out the list itself, not a copy
ReturnsStateList(messages, own_window) == Len(messages) <= own_window

add_message(state, message) ==
    [state EXCEPT !.messages = Append(@, message)]

create_initial_state(rounds) ==
    [messages |-> <<>>, round_count |-> 0, max_rounds |-> rounds]

\* ---------------------------------------------------------- Conversation
_get_new_messages_for_agent(all_messages, seen) ==
    SelectSeq(all_messages, LAMBDA m : m.turn > seen)

\* _format_conversation_history: the text handed to the evaluator, as the
\* sequence of its lines ("\n".join of one "speaker: message" per log entry)
NoHistory == "No conversation history available."

_format_conversation_history(all_messages) ==
    IF all_messages = <<>>
    THEN <<Raw(NoHistory)>>
    ELSE [i \in 1..Len(all_messages) |->
             Prefixed(all_messages[i].speaker, all_messages[i].message)]

\* ------------------------------------------------------------ BrokerAgent
RoundRobinAgentNext(roster, turn) == roster[((turn + 1) % Len(roster)) + 1]

RoundRobinAgent(roster, turn) == roster[(turn % Len(roster)) + 1]

\* the rule that decides a get_next_agent call: the first random draw is below
\* 0.1, or else the second draw is, or else neither
BrokerRule == "broker"
RandomRule == "random"
RoundRobinRule == "round_robin"

\* get_next_agent with the counter bumped before the roster is looked at
get_next_agent_counting(roster, turn, rule, choice) ==
    IF roster = <<>>
    THEN [outcome |-> "ValueError", speaker |-> "none", turn |-> turn + 1]
    ELSE [outcome |-> rule,
          speaker |-> CASE rule = BrokerRule -> BrokerBobby
                        [] rule = RandomRule -> roster[choice]
                        [] OTHER -> RoundRobinAgent(roster, turn),
          turn |-> turn + 1]

\* get_next_agent with an override that leaves the cursor where it was
get_next_agent_deferring(roster, turn, rule, choice) ==
    IF roster = <<>>
    THEN [outcome |-> "ValueError", speaker |-> "none", turn |-> turn]
    ELSE [outcome |-> rule,
          speaker |-> CASE rule = BrokerRule -> BrokerBobby
                        [] rule = RandomRule -> roster[choice]
                        [] OTHER -> RoundRobinAgent(roster, turn),
          turn |-> IF rule = RoundRobinRule THEN turn + 1 ELSE turn]

\* get_next_agent: what the call does (raises ValueError, or returns a
\* speaker) and current_turn after it; `choice` is random.choice's index
get_next_agent(roster, turn, rule, choice) ==
    IF roster = <<>>
    THEN [outcome |-> "ValueError", speaker |-> "none", turn |-> turn]
    ELSE [outcome |-> rule,
          speaker |-> CASE rule = BrokerRule -> BrokerBobby
                        [] rule = RandomRule -> roster[choice]
                        [] OTHER -> RoundRobinAgent(roster, turn),
          turn |-> turn + 1]

\* -------------------------------------------------------------------- Init
InitWith(n, rounds, w) ==
    /\ agents = SubSeq(AgentNames, 1, n)
    /\ current_turn = 0
    /\ round_count = 0
    /\ max_rounds = rounds
    /\ conversation_state = create_initial_state(rounds)
    /\ conversation_history = [a \in Range(SubSeq(AgentNames, 1, n)) \cup {BrokerBobby} |-> <<>>]
    /\ last_seen_turn = [a \in Range(SubSeq(AgentNames, 1, n)) \cup {BrokerBobby} |-> 0]
    /\ memory_messages = [a \in Range(SubSeq(AgentNames, 1, n)) \cup {BrokerBobby} |-> <<>>]
    /\ memory_is_state = {}
    /\ window_size = w
    /\ evaluations = 0
    /\ conclusions = 0
    /\ starts = 0
    /\ calls = 0
    /\ last = [op |-> "__init__", outcome |-> "none", speaker |-> "none"]

Init == \E n \in 1..MaxAgents, w \in WindowSizes : InitWith(n, DefaultMaxRounds, w)

\* ------------------------------------------------------------------ actions
start_conversation ==
    /\ conversation_history' =
          [conversation_history EXCEPT
              ![BrokerBobby] = add_to_history(@, Introduction, TheBroker)]
    /\ conversation_state' =
          add_message(conversation_state, HumanMessage(Raw(Introduction)))
    /\ starts' = starts + 1
    /\ last' = [op |-> "start_conversation", outcome |-> "introduction",
                speaker |-> TheBroker]
    /\ UNCHANGED <<agents, current_turn, round_count, max_rounds, last_seen_turn,
                   memory_messages, memory_is_state, window_size, evaluations,
                   conclusions, calls>>

set_max_rounds(rounds) ==
    /\ max_rounds' = rounds
    /\ conversation_state' = [conversation_state EXCEPT !.max_rounds = rounds]
    /\ UNCHANGED <<agents, current_turn, round_count, conversation_history,
                   last_seen_turn, memory_messages, memory_is_state, window_size,
                   evaluations, conclusions, starts, calls, last>>

\* _conclude_conversation reached whatever round_count is
_conclude_conversation_early ==
    /\ evaluations' = evaluations + 1
    /\ conclusions' = conclusions + 1
    /\ conversation_state' =
          add_message(conversation_state, HumanMessage(Raw(Conclusion)))
    /\ calls' = calls + 1
    /\ last' = [op |-> "next_turn", outcome |-> "conclusion", speaker |-> Evaluator]
    /\ UNCHANGED <<agents, current_turn, round_count, max_rounds,
                   conversation_history, last_seen_turn, memory_messages,
                   memory_is_state, window_size, starts>>

\* next_turn, first branch: _conclude_conversation
_conclude_conversation ==
    /\ round_count >= max_rounds
    /\ evaluations' = evaluations + 1
    /\ conclusions' = conclusions + 1
    /\ conversation_state' =
          add_message(conversation_state, HumanMessage(Raw(Conclusion)))
    /\ calls' = calls + 1
    /\ last' = [op |-> "next_turn", outcome |-> "conclusion", speaker |-> Evaluator]
    /\ UNCHANGED <<agents, current_turn, round_count, max_rounds,
                   conversation_history, last_seen_turn, memory_messages,
                   memory_is_state, window_size, starts>>

\* next_turn, second branch, with `agent` the speaker get_next_agent returned and
\* `result` whether llm.invoke returned or raised
Turn(agent, result) ==
    LET response == TextNames[calls + 1]
        messages == conversation_state.messages
        shared == ReturnsStateList(messages, window_size)
        recent == get_recent_messages(messages, None, window_size)
        new_messages == _get_new_messages_for_agent(Log, last_seen_turn[agent])
        updated == update_with_new_messages(conversation_history[agent],
                                            last_seen_turn[agent], agent, new_messages)
        added == updated.added
        history1 == [conversation_history EXCEPT ![agent] = updated.history]
        state1 == IF shared THEN messages \o added ELSE messages
        own1 == IF shared THEN <<>> ELSE recent \o added
        failed == result = Raises
        \* respond: _add_response_to_memory
        state2 == IF shared THEN Append(state1, AIMessage(Raw(response))) ELSE state1
        own2 == IF shared THEN <<>> ELSE Append(own1, AIMessage(Raw(response)))
    IN  /\ round_count < max_rounds
        /\ current_turn' = current_turn + 1
        /\ memory_is_state' = IF shared THEN memory_is_state \cup {agent}
                                        ELSE memory_is_state \ {agent}
        /\ last_seen_turn' = [last_seen_turn EXCEPT ![agent] = updated.seen]
        /\ calls' = calls + 1
        /\ IF failed
           THEN /\ conversation_history' = history1
                /\ conversation_state' = [conversation_state EXCEPT !.messages = state1]
                /\ memory_messages' = [memory_messages EXCEPT ![agent] = own1]
                /\ round_count' = round_count
                /\ last' = [op |-> "next_turn", outcome |-> "raised", speaker |-> agent]
           ELSE /\ conversation_history' =
                      [history1 EXCEPT
                          ![BrokerBobby] = add_to_history(@, response, agent)]
                /\ conversation_state' =
                      [conversation_state EXCEPT
                          !.messages = Append(state2, AIMessage(Prefixed(agent, response)))]
                /\ memory_messages' = [memory_messages EXCEPT ![agent] = own2]
                /\ round_count' = IF (current_turn + 1) % Len(agents) = 0
                                  THEN round_count + 1 ELSE round_count
                /\ last' = [op |-> "next_turn", outcome |-> "turn", speaker |-> agent]
        /\ UNCHANGED <<agents, max_rounds, window_size, evaluations, conclusions, starts>>

\* a broker turn that takes a slot of the rotation without counting for the
\* round
BrokerOverrideUncounted(result) ==
    LET response == TextNames[calls + 1]
    IN  /\ round_count < max_rounds
        /\ current_turn' = current_turn + 1
        /\ round_count' = round_count
        /\ calls' = calls + 1
        /\ conversation_history' =
              [conversation_history EXCEPT
                  ![BrokerBobby] = add_to_history(@, response, BrokerBobby)]
        /\ conversation_state' =
              add_message(conversation_state,
                          AIMessage(Prefixed(BrokerBobby, response)))
        /\ last' = [op |-> "next_turn", outcome |-> "turn", speaker |-> BrokerBobby]
        /\ UNCHANGED <<agents, max_rounds, last_seen_turn, memory_messages,
                       memory_is_state, window_size, evaluations, conclusions,
                       starts>>

\* get_next_agent's three rules
BrokerOverride(result) == Turn(BrokerBobby, result)
RandomOverride(result) == \E a \in Range(agents) : Turn(a, result)
RoundRobin(result) == Turn(RoundRobinAgent(agents, current_turn), result)

Start == starts < MaxStarts /\ start_conversation
SetMaxRounds == \E r \in 0..MaxRounds : set_max_rounds(r)
Conclude == calls < MaxCalls /\ _conclude_conversation
TurnBroker == calls < MaxCalls /\ BrokerOverride(Returns)
TurnRandom == calls < MaxCalls /\ RandomOverride(Returns)
TurnRoundRobin == calls < MaxCalls /\ RoundRobin(Returns)
TurnFails ==
    /\ calls < MaxCalls
    /\ \/ BrokerOverride(Raises)
       \/ RandomOverride(Raises)
       \/ RoundRobin(Raises)

Next ==
    \/ Start
    \/ SetMaxRounds
    \/ Conclude
    \/ TurnBroker
    \/ TurnRandom
    \/ TurnRoundRobin
    \/ TurnFails

Spec == Init /\ [][Next]_vars

\* --------------------------------------------------- strict round-robin runs
\* The driver's order of calls (main.py): construction, set_max_rounds(r),
\* start_conversation(), then next_turn() repeatedly; both random draws of
\* get_next_agent miss, so rule 3 selects every speaker and no responder fails.
InitRR ==
    \E n \in 1..MaxAgentsRR, r \in 1..MaxRoundsRR, w \in WindowSizes : InitWith(n, r, w)

StartRR == starts = 0 /\ start_conversation
TurnRR == starts = 1 /\ RoundRobin(Returns)
ConcludeRR == starts = 1 /\ conclusions < MaxConclusions /\ _conclude_conversation

NextRR ==
    \/ StartRR
    \/ TurnRR
    \/ ConcludeRR

SpecRR == InitRR /\ [][NextRR]_vars

\* ------------------------------------------------------ snapshot and restore
\* get_conversation_state returns the state dictionary itself
get_conversation_state == conversation_state

\* set_conversation_state: the state is adopted and round_count is read from
\* it; max_rounds, the broker's current_turn and the histories are not touched
set_conversation_state(state) ==
    /\ conversation_state' = state
    /\ round_count' = state.round_count
    /\ last' = [op |-> "set_conversation_state", outcome |-> "restored",
                speaker |-> "none"]
    /\ UNCHANGED <<agents, current_turn, max_rounds, conversation_history,
                   last_seen_turn, memory_messages, memory_is_state, window_size,
                   evaluations, conclusions, starts, calls>>

\* A driven conversation (as in the strict round-robin runs) on which the
\* caller may at any point restore the snapshot it has just taken.
InitSnap ==
    \E n \in 1..MaxAgentsSnap, r \in 1..MaxRoundsSnap, w \in WindowSizes :
        InitWith(n, r, w)

StartSnap == starts = 0 /\ start_conversation
TurnSnap == starts = 1 /\ calls < MaxCallsSnap /\ RoundRobin(Returns)
ConcludeSnap == starts = 1 /\ calls < MaxCallsSnap /\ _conclude_conversation
RoundTrip == starts = 1 /\ set_conversation_state(get_conversation_state)

NextSnap ==
    \/ StartSnap
    \/ TurnSnap
    \/ ConcludeSnap
    \/ RoundTrip

SpecSnap == InitSnap /\ [][NextSnap]_vars

\* ------------------------------------------- assembled without agent specs
\* Conversation.__init__: the number of agents made from `agent_specs` agent
\* specifications; an empty list is falsy and takes the default branch
RosterSize(agent_specs) == IF agent_specs > 0 THEN agent_specs ELSE DefaultAgents

\* main without --agents: Conversation(topic, agent_specs=[]), set_max_rounds,
\* start_conversation, then next_turn calls under every rule of get_next_agent.
\* With five agents no round ends within the calls explored, so next_turn's
\* concluding branch is never taken here.
InitNoSpecs ==
    \E r \in 1..MaxRoundsRR, w \in WindowSizes : InitWith(RosterSize(0), r, w)

StartNoSpecs == starts = 0 /\ start_conversation
TurnBrokerNoSpecs ==
    starts = 1 /\ calls < MaxCallsNoSpecs /\ BrokerOverride(Returns)
TurnRandomNoSpecs ==
    starts = 1 /\ calls < MaxCallsNoSpecs /\ RandomOverride(Returns)
TurnRoundRobinNoSpecs ==
    starts = 1 /\ calls < MaxCallsNoSpecs /\ RoundRobin(Returns)

NextNoSpecs ==
    \/ StartNoSpecs
    \/ TurnBrokerNoSpecs
    \/ TurnRandomNoSpecs
    \/ TurnRoundRobinNoSpecs

SpecNoSpecs == InitNoSpecs /\ [][NextNoSpecs]_vars

\* ------------------------------------------------- runs to the conclusion
\* The driver's order of calls with max_rounds fixed before the start, every
\* rule of get_next_agent possible at every turn, no responder failing, and
\* next_turn called again and again (weak fairness of the driver's loop).
InitTerm ==
    \E n \in 1..MaxAgentsTerm, r \in 1..MaxRoundsTerm, w \in WindowSizes :
        InitWith(n, r, w)

StartTerm == starts = 0 /\ start_conversation
TurnBrokerTerm == starts = 1 /\ BrokerOverride(Returns)
TurnRandomTerm == starts = 1 /\ RandomOverride(Returns)
TurnRoundRobinTerm == starts = 1 /\ RoundRobin(Returns)
ConcludeTerm ==
    starts = 1 /\ conclusions < MaxConclusionsTerm /\ _conclude_conversation

NextTerm ==
    \/ StartTerm
    \/ TurnBrokerTerm
    \/ TurnRandomTerm
    \/ TurnRoundRobinTerm
    \/ ConcludeTerm

SpecTerm == InitTerm /\ [][NextTerm]_vars /\ WF_vars(NextTerm)

\* --------------------------------------------------- the interactive driver
\* main with --interactive: after start_conversation the loop waits for a
\* line of input, then either leaves (quit, or KeyboardInterrupt raised by
\* input()) or calls next_turn; it also leaves when next_turn returned the
\* conclusion or raised.  `last` tells how the last pass of the loop went.
Quit == "quit"
KeyboardInterrupt == "KeyboardInterrupt"

\* a loop that goes on asking whatever happened
WaitingForInputAlways == starts = 1

\* the loop is at input(): started, and no break or exception has ended it
WaitingForInput ==
    /\ starts = 1
    /\ last.outcome \notin {Quit, KeyboardInterrupt, "conclusion", "raised"}

\* input() returns 'quit' / raises KeyboardInterrupt: break
LeaveLoop(how) ==
    /\ last' = [op |-> "input", outcome |-> how, speaker |-> "none"]
    /\ UNCHANGED <<agents, current_turn, round_count, max_rounds, conversation_state,
                   conversation_history, last_seen_turn, memory_messages,
                   memory_is_state, window_size, evaluations, conclusions, starts,
                   calls>>

InitInter ==
    \E n \in 1..MaxAgentsInter, r \in 1..MaxRoundsInter, w \in WindowSizes :
        InitWith(n, r, w)

StartInter == starts = 0 /\ start_conversation
QuitInter == WaitingForInput /\ LeaveLoop(Quit)
InterruptInter == WaitingForInput /\ LeaveLoop(KeyboardInterrupt)
TurnBrokerInter == WaitingForInput /\ BrokerOverride(Returns)
TurnRandomInter == WaitingForInput /\ RandomOverride(Returns)
TurnRoundRobinInter == WaitingForInput /\ RoundRobin(Returns)
TurnFailsInter ==
    /\ WaitingForInput
    /\ \/ BrokerOverride(Raises)
       \/ RandomOverride(Raises)
       \/ RoundRobin(Raises)
ConcludeInter == WaitingForInput /\ _conclude_conversation

NextInter ==
    \/ StartInter
    \/ QuitInter
    \/ InterruptInter
    \/ TurnBrokerInter
    \/ TurnRandomInter
    \/ TurnRoundRobinInter
    \/ TurnFailsInter
    \/ ConcludeInter

SpecInter == InitInter /\ [][NextInter]_vars

\* --------------------------------------------------- the automatic driver
\* main without --interactive: `agent_specs` specifications given with --agents
\* (none: the default roster), set_max_rounds(args.rounds), start_conversation,
\* then at most args.rounds * 3 next_turn calls, leaving the loop when one
\* returns the conclusion.  No responder fails.
InitBatch ==
    \E agent_specs \in 0..MaxSpecsBatch, r \in 1..MaxRoundsBatch, w \in WindowSizes :
        InitWith(RosterSize(agent_specs), r, w)

\* the for loop has an iteration left and has not reached its break
InBatchLoop ==
    /\ starts = 1
    /\ calls < max_rounds * BatchCallsPerRound
    /\ last.outcome # "conclusion"

\* the for loop is over
BatchLoopOver ==
    /\ starts = 1
    /\ \/ calls >= max_rounds * BatchCallsPerRound
       \/ last.outcome = "conclusion"

StartBatch == starts = 0 /\ start_conversation
TurnBrokerBatch == InBatchLoop /\ BrokerOverride(Returns)
TurnRandomBatch == InBatchLoop /\ RandomOverride(Returns)
TurnRoundRobinBatch == InBatchLoop /\ RoundRobin(Returns)
ConcludeBatch == InBatchLoop /\ _conclude_conversation

NextBatch ==
    \/ StartBatch
    \/ TurnBrokerBatch
    \/ TurnRandomBatch
    \/ TurnRoundRobinBatch
    \/ ConcludeBatch

SpecBatch == InitBatch /\ [][NextBatch]_vars

\* ------------------------------------------------------- the broker alone
\* A BrokerAgent as constructed (current_turn 0, no agents), given a roster by
\* set_agents before its first successful call, and asked for the next
\* speaker; `calls` counts the get_next_agent calls and `last` also keeps the
\* outcome of the call before.  The roster may be empty.
InitBroker ==
    /\ agents = <<>>
    /\ current_turn = 0
    /\ round_count = 0
    /\ max_rounds = DefaultMaxRounds
    /\ conversation_state = create_initial_state(DefaultMaxRounds)
    /\ conversation_history = [a \in Range(AgentNames) \cup {BrokerBobby} |-> <<>>]
    /\ last_seen_turn = [a \in Range(AgentNames) \cup {BrokerBobby} |-> 0]
    /\ memory_messages = [a \in Range(AgentNames) \cup {BrokerBobby} |-> <<>>]
    /\ memory_is_state = {}
    /\ window_size \in WindowSizes
    /\ evaluations = 0
    /\ conclusions = 0
    /\ starts = 0
    /\ calls = 0
    /\ last = [op |-> "__init__", outcome |-> "none", speaker |-> "none"]

set_agents(roster) ==
    /\ agents' = roster
    /\ UNCHANGED <<current_turn, round_count, max_rounds, conversation_state,
                   conversation_history, last_seen_turn, memory_messages,
                   memory_is_state, window_size, evaluations, conclusions, starts,
                   calls, last>>

GetNextAgent(rule, choice) ==
    LET got == get_next_agent(agents, current_turn, rule, choice)
    IN  /\ current_turn' = got.turn
        /\ calls' = calls + 1
        /\ last' = [op |-> "get_next_agent", outcome |-> got.outcome,
                    speaker |-> got.speaker, previous |-> last.outcome]
        /\ UNCHANGED <<agents, round_count, max_rounds, conversation_state,
                       conversation_history, last_seen_turn, memory_messages,
                       memory_is_state, window_size, evaluations, conclusions,
                       starts>>

SetAgents ==
    /\ current_turn = 0
    /\ \E n \in 0..MaxRoster : set_agents(SubSeq(AgentNames, 1, n))
NextBroker == calls < MaxNextCalls /\ GetNextAgent(BrokerRule, 1)
NextRandom ==
    /\ calls < MaxNextCalls
    /\ \E choice \in 1..MaxRoster :
          /\ agents # <<>> => choice <= Len(agents)
          /\ GetNextAgent(RandomRule, choice)
NextRoundRobin == calls < MaxNextCalls /\ GetNextAgent(RoundRobinRule, 1)

NextOfBroker ==
    \/ SetAgents
    \/ NextBroker
    \/ NextRandom
    \/ NextRoundRobin

SpecBroker == InitBroker /\ [][NextOfBroker]_vars

\* ------------------------------------------------------------------ claims
Suffix(s, k) == SubSeq(s, Len(s) - k + 1, Len(s))

Min(a, b) == IF a <= b THEN a ELSE b

\* C1: round_count is the number of completed passes of N dispatched turns,
\* round_count = floor(current_turn / N), in every reachable state.
C1_RoundCountIsTurnsOverN == round_count = current_turn \div Len(agents)

\* C2: the canonical log carries the ordinals 1, 2, ..., len(log) in position
\* order.
C2_OrdinalsArePositions == \A i \in 1..Len(Log) : Log[i].turn = i

\* C3: with no override and no failure, the k-th next_turn call (from 0) is
\* spoken by the participant at position k mod N for the first N * max_rounds
\* calls, none of them is a conclusion, and call N * max_rounds + 1 returns the
\* terminal summary.
C3_StrictRoundRobin ==
    LET N == Len(agents)
        total == N * max_rounds
    IN  /\ \A k \in 1..Min(calls, total) :
              /\ Len(Log) >= k + 1
              /\ Log[k + 1].speaker = agents[((k - 1) % N) + 1]
        /\ (1 <= calls /\ calls <= total) =>
              /\ last.outcome = "turn"
              /\ last.speaker = agents[((calls - 1) % N) + 1]
              /\ conclusions = 0
        /\ calls = total + 1 => (last.outcome = "conclusion" /\ conclusions = 1)

\* C3 witness: 3 participants, 2 rounds, six turns P1 P2 P3 P1 P2 P3 and the
\* 7th call returned the summary.
C3_Witness ==
    /\ Len(agents) = 3
    /\ max_rounds = 2
    /\ calls = 7
    /\ last.outcome = "conclusion"
    /\ [i \in 1..6 |-> Log[i + 1].speaker] = <<"P1", "P2", "P3", "P1", "P2", "P3">>

\* C4: once a terminal summary has been returned, a further next_turn call
\* signals ConversationEndedError and changes neither the canonical log, the
\* message store nor the counters.
C4_AdvanceAfterConclusionRejected ==
    [][(conclusions >= 1 /\ calls' = calls + 1) =>
          /\ last'.outcome = "ConversationEndedError"
          /\ conversation_history' = conversation_history
          /\ conversation_state' = conversation_state
          /\ current_turn' = current_turn
          /\ round_count' = round_count
          /\ evaluations' = evaluations]_vars

\* C5: a next_turn call whose responder raises leaves the canonical log and the
\* message store exactly as they were.
C5_FailedTurnLeavesLogs ==
    [][(calls' = calls + 1 /\ last'.outcome = "raised") =>
          /\ conversation_history'[BrokerBobby] = conversation_history[BrokerBobby]
          /\ conversation_state'.messages = conversation_state.messages]_vars

\* C6: a next_turn call whose responder raises leaves current_turn and
\* round_count as they were, so the retry dispatches the same position.
C6_FailedTurnLeavesCounters ==
    [][(calls' = calls + 1 /\ last'.outcome = "raised") =>
          /\ current_turn' = current_turn
          /\ round_count' = round_count]_vars

\* C7: a start_conversation call after the first signals AlreadyStartedError and
\* appends no second introduction.
C7_SecondStartRejected ==
    [][(starts >= 1 /\ starts' = starts + 1) =>
          /\ last'.outcome = "AlreadyStartedError"
          /\ conversation_history' = conversation_history]_vars

\* C8: the evaluator has been invoked 0 times before the conclusion and exactly
\* once from the conclusion onward.
C8_EvaluatorInvokedOnce == evaluations = (IF conclusions = 0 THEN 0 ELSE 1)

\* C9: for every non-negative size, get_recent_messages returns at most size
\* messages, namely the suffix of the messages of length min(size, len).
C9_RecentWindowIsSuffix ==
    \A size \in 0..MaxSize :
        LET messages == conversation_state.messages
            recent == get_recent_messages(messages, size, window_size)
        IN  /\ Len(recent) <= size
            /\ recent = Suffix(messages, Min(size, Len(messages)))

\* C10: once a speaker has been reconciled, the unseen messages computed again
\* with no append in between are empty, and reconciling again changes neither
\* its history nor its last_seen_turn: in the state a failed turn leaves (the
\* speaker reconciled, nothing appended), and for every speaker were it
\* reconciled now.
C10_UnseenIdempotent ==
    /\ last.outcome = "raised" =>
          _get_new_messages_for_agent(Log, last_seen_turn[last.speaker]) = <<>>
    /\ \A a \in Speakers :
          LET new1 == _get_new_messages_for_agent(Log, last_seen_turn[a])
              once == update_with_new_messages(
                          conversation_history[a], last_seen_turn[a], a, new1)
              log1 == IF a = BrokerBobby THEN once.history ELSE Log
              new2 == _get_new_messages_for_agent(log1, once.seen)
              twice == update_with_new_messages(once.history, once.seen, a, new2)
          IN  /\ new2 = <<>>
              /\ twice.history = once.history
              /\ twice.seen = once.seen

\* C10 witness: a failed turn whose speaker had at least two unseen messages
\* to reconcile, the broker among such speakers.
C10_Witness ==
    /\ last.outcome = "raised"
    /\ last.speaker = BrokerBobby
    /\ Len(Log) >= 4
    /\ last_seen_turn[BrokerBobby] >= 2

\* C11: get_next_agent on a broker with no agents raises, returns no speaker
\* and leaves current_turn as it was.
C11_EmptyRosterRaises ==
    [][(agents = <<>> /\ calls' = calls + 1) =>
          /\ last'.op = "get_next_agent"
          /\ last'.outcome = "ValueError"
          /\ last'.speaker = "none"
          /\ current_turn' = current_turn]_vars

\* C11 witness: two calls on an empty roster have raised.
C11_Witness ==
    /\ agents = <<>>
    /\ calls >= 2
    /\ last.op = "get_next_agent"
    /\ last.outcome = "ValueError"
    /\ current_turn = 0

\* C12: restoring the snapshot just taken leaves round_count, current_turn,
\* max_rounds, the canonical log and the state as they were.
C12_RoundTripChangesNothing ==
    [][last'.op = "set_conversation_state" =>
          /\ round_count' = round_count
          /\ current_turn' = current_turn
          /\ max_rounds' = max_rounds
          /\ conversation_history' = conversation_history
          /\ conversation_state' = conversation_state]_vars

\* C13: the speaker of a next_turn call, once reconciled, holds as its history
\* exactly the canonical log as it stood when the call began.
C13_ReconciledHistoryIsLog ==
    [][(calls' = calls + 1 /\ last'.outcome \in {"turn", "raised"}) =>
          LET reconciled ==
                  update_with_new_messages(
                      conversation_history[last'.speaker],
                      last_seen_turn[last'.speaker], last'.speaker,
                      _get_new_messages_for_agent(Log, last_seen_turn[last'.speaker]))
          IN  reconciled.history = Log]_vars

\* C14: every get_next_agent call that returns a speaker adds exactly 1 to
\* current_turn, whichever rule decided it; a round-robin call returns the
\* participant at the cursor, so after an override at cursor k the next
\* round-robin call returns the participant at (k + 1) mod N, not the one at k.
C14_OverrideConsumesSlot ==
    [][(calls' = calls + 1 /\ last'.outcome # "ValueError") =>
          LET N == Len(agents)
              k == (current_turn - 1) % N
          IN  /\ last'.outcome \in {BrokerRule, RandomRule, RoundRobinRule}
              /\ current_turn' = current_turn + 1
              /\ last'.outcome = RoundRobinRule =>
                    last'.speaker = agents[(current_turn % N) + 1]
              /\ (last.outcome \in {BrokerRule, RandomRule}
                    /\ last'.outcome = RoundRobinRule) =>
                    last'.speaker = agents[((k + 1) % N) + 1]]_vars

\* C14 witness: of three participants P1 spoke, a broker override took P2's
\* slot and the round-robin call after it returned P3.
C14_Witness ==
    /\ Len(agents) = 3
    /\ current_turn = 3
    /\ calls = 3
    /\ last.op = "get_next_agent"
    /\ last.previous = BrokerRule
    /\ last.outcome = RoundRobinRule
    /\ last.speaker = "P3"

\* C15: a next_turn call that returns a speaker's response leaves the message
\* store and the canonical log each exactly one message longer, and what they
\* held before is still there, in place.
C15_TurnAppendsOneToEach ==
    [][(calls' = calls + 1 /\ last'.outcome = "turn") =>
          LET store == conversation_state.messages
              store1 == conversation_state'.messages
              log1 == conversation_history'[BrokerBobby]
          IN  /\ Len(store1) = Len(store) + 1
              /\ SubSeq(store1, 1, Len(store)) = store
              /\ Len(log1) = Len(Log) + 1
              /\ SubSeq(log1, 1, Len(Log)) = Log]_vars

\* the next_turn call whose responder returned `text`
CallOf(text) == CHOOSE k \in 1..Len(TextNames) : TextNames[k] = text

\* C16: when next_turn has concluded, the transcript the evaluator was given
\* holds each committed message exactly once and in commit order: one
\* introduction line per start_conversation call, and the responses in the
\* order of the calls that produced them, none twice.
C16_TranscriptExactlyOnce ==
    last.outcome = "conclusion" =>
        LET transcript == _format_conversation_history(Log)
            lines == 1..Len(transcript)
            introduction == Prefixed(TheBroker, Introduction)
            responses == {i \in lines : transcript[i] \notin
                                            {introduction, Raw(NoHistory)}}
        IN  /\ Cardinality({i \in lines : transcript[i] = introduction}) = starts
            /\ \A i, j \in responses :
                  i < j => CallOf(transcript[i][2]) < CallOf(transcript[j][2])

\* C17: a conversation assembled with zero agent specifications never
\* dispatches a turn.
C17_NoTurnWithoutSpecs ==
    /\ calls = 0
    /\ current_turn = 0
    /\ last.op # "next_turn"

\* C18: next_turn before start_conversation dispatches no turn, so a canonical
\* log that is not empty begins with the introduction.
C18_LogBeginsWithIntroduction ==
    /\ (starts = 0 => current_turn = 0 /\ Log = <<>>)
    /\ Log # <<>> =>
          /\ Log[1].speaker = TheBroker
          /\ Log[1].message = Introduction

\* C19: for every speaker the unseen messages are exactly the log entries
\* whose ordinal exceeds its last_seen_turn, they come in strictly increasing
\* ordinal order, and reconciling with them leaves last_seen_turn equal to the
\* greatest ordinal in the log and not below what it was.
C19_UnseenInOrdinalOrder ==
    \A a \in Speakers :
        LET seen == last_seen_turn[a]
            unseen == _get_new_messages_for_agent(Log, seen)
            after == update_with_new_messages(conversation_history[a], seen, a, unseen)
        IN  /\ \A i \in 1..Len(unseen) : unseen[i].turn > seen
            /\ Len(unseen) = Cardinality({i \in 1..Len(Log) : Log[i].turn > seen})
            /\ \A i, j \in 1..Len(unseen) : i < j => unseen[i].turn < unseen[j].turn
            /\ after.seen >= seen
            /\ \A i \in 1..Len(Log) : Log[i].turn <= after.seen
            /\ Log # <<>> => \E i \in 1..Len(Log) : Log[i].turn = after.seen

\* C20: with max_rounds fixed and no responder failing, repeated next_turn
\* calls reach the conclusion whatever the override draws; until then every
\* call dispatches a turn, never in a state with round_count >= max_rounds,
\* and the conclusion comes exactly when N * max_rounds turns have been
\* dispatched, which is when round_count >= max_rounds.
C20_ReachesConclusion ==
    /\ [](LET N == Len(agents)
          IN  /\ round_count = current_turn \div N
              /\ current_turn <= N * max_rounds
              /\ calls = current_turn + conclusions
              /\ last.outcome = "turn" => current_turn <= N * max_rounds
              /\ conclusions >= 1 <=> last.outcome = "conclusion"
              /\ last.outcome = "conclusion" =>
                    /\ round_count >= max_rounds
                    /\ current_turn = N * max_rounds)
    /\ <>(conclusions >= 1)

\* C20 witness: two participants, one round; the broker took one of the two
\* turns and the third call concluded.
C20_Witness ==
    /\ Len(agents) = 2
    /\ max_rounds = 1
    /\ current_turn = 2
    /\ calls = 3
    /\ conclusions = 1
    /\ last.outcome = "conclusion"
    /\ \E i \in 1..Len(Log) : Log[i].speaker = BrokerBobby

\* the list an agent's memory_messages refers to: the state's own list or the
\* agent's own
MemoryOf(a, is_state, state, own) ==
    IF a \in is_state THEN state.messages ELSE own[a]

\* C21: a next_turn call spoken by S leaves every other participant's
\* conversation_history, last_seen_turn and memory_messages as they were.
C21_TurnLeavesOthersAlone ==
    [][(calls' = calls + 1 /\ last'.outcome = "turn") =>
          \A P \in Range(agents) \ {last'.speaker} :
              /\ conversation_history'[P] = conversation_history[P]
              /\ last_seen_turn'[P] = last_seen_turn[P]
              /\ MemoryOf(P, memory_is_state', conversation_state', memory_messages')
                    = MemoryOf(P, memory_is_state, conversation_state, memory_messages)]_vars

\* C22: whatever a speaker's memory_messages hold, _create_messages passes the
\* system prompt, then at most MEMORY_WINDOW_SIZE of them, namely the most
\* recent ones, then the closing request.
C22_ContextBoundedByWindow ==
    \A a \in Speakers :
        LET memory == MemoryOf(a, memory_is_state, conversation_state, memory_messages)
            messages == _create_messages(memory, window_size)
            passed == SubSeq(messages, 2, Len(messages) - 1)
        IN  /\ messages[1] = SystemPrompt
            /\ messages[Len(messages)] = ClosingRequest
            /\ Len(passed) <= window_size
            /\ passed = Suffix(memory, Min(window_size, Len(memory)))

\* C22 witness: the responder of a turn was called (and raised) with a memory
\* longer than the window, some of it added by reconciliation.
C22_Witness ==
    /\ last.outcome = "raised"
    /\ Len(MemoryOf(last.speaker, memory_is_state, conversation_state,
                    memory_messages)) > window_size + 1
    /\ Len(Log) >= 2

\* C23: max_rounds is positive and equal to the max_rounds recorded in the
\* conversation state, in every reachable state.
C23_MaxRoundsPositive ==
    /\ max_rounds > 0
    /\ max_rounds = conversation_state.max_rounds

\* C24: when the interactive loop is left on 'quit' or on a KeyboardInterrupt
\* at input(), the canonical log, the store and the counters are exactly what
\* the last completed next_turn left, and nothing is called afterwards.
C24_InterruptEndsCleanly ==
    [][/\ last.outcome \in {Quit, KeyboardInterrupt} => UNCHANGED vars
       /\ last'.outcome \in {Quit, KeyboardInterrupt} =>
             /\ calls' = calls
             /\ conversation_history' = conversation_history
             /\ conversation_state' = conversation_state
             /\ current_turn' = current_turn
             /\ round_count' = round_count
             /\ evaluations' = evaluations]_vars

\* C24 witness: the user interrupted after two completed turns, before the
\* conclusion.
C24_Witness ==
    /\ last.outcome = KeyboardInterrupt
    /\ calls = 2
    /\ Len(Log) >= 3
    /\ conclusions = 0

\* the participants no entry of the canonical log was spoken by
Silent == {P \in Range(agents) : \A i \in 1..Len(Log) : Log[i].speaker # P}

\* C25: round_count advances once per N dispatched turns whoever the speakers
\* were, up to max_rounds, also in runs where the override draws keep a
\* participant from speaking in a round or in the whole conversation (the
\* witness is such a run).
C25_RoundsAdvanceWhoeverSpeaks ==
    LET N == Len(agents)
    IN  /\ round_count = current_turn \div N
        /\ round_count <= max_rounds

\* C25 witness: two participants, the conversation ran its round and
\* concluded, and P2 never spoke.
C25_Witness ==
    /\ Len(agents) = 2
    /\ conclusions >= 1
    /\ round_count = max_rounds
    /\ current_turn = 2 * max_rounds
    /\ "P2" \in Silent

\* the text of a stored message: its content without the "speaker: " prefix
TextOf(content) == content[Len(content)]

\* C26: after start_conversation and after every next_turn call that returned
\* a speaker's response, the message store and the canonical log have the same
\* length, and entry by entry the same text, from the same speaker where the
\* store names one.
C26_StoreAndLogInStep ==
    last.outcome \in {"introduction", "turn"} =>
        LET store == conversation_state.messages
        IN  /\ Len(store) = Len(Log)
            /\ \A i \in 1..Min(Len(store), Len(Log)) :
                  /\ TextOf(store[i].content) = Log[i].message
                  /\ Len(store[i].content) = 2 =>
                        store[i].content[1] = Log[i].speaker

\* C27: when the automatic driver's loop of next_turn calls is over, the
\* conclusion has been returned and the evaluator has been invoked.
C27_BatchLoopEndsConcluded ==
    BatchLoopOver =>
        /\ last.outcome = "conclusion"
        /\ conclusions = 1
        /\ evaluations = 1

\* C28: the round_count recorded in the conversation state equals the
\* controller's round_count, in every reachable state.
C28_StateRoundCountIsLive == conversation_state.round_count = round_count

\* what next_turn has put in the speaker's memory_messages when it calls
\* respond: the recent window, then what reconciliation added
MemoryHanded(a) ==
    LET messages == conversation_state.messages
        unseen == _get_new_messages_for_agent(Log, last_seen_turn[a])
    IN  get_recent_messages(messages, None, window_size)
            \o MemoryAdditions(a, unseen)

\* C29: the memory_messages a speaker's responder is given hold no utterance
\* twice (every utterance of a run started once has a text of its own).
C29_MemoryHoldsEachOnce ==
    [][(calls' = calls + 1 /\ last'.outcome = "turn") =>
          LET memory == MemoryHanded(last'.speaker)
          IN  \A i, j \in 1..Len(memory) :
                  i < j => TextOf(memory[i].content) # TextOf(memory[j].content)]_vars

====
